---- MODULE Spec2Model ----
(***************************************************************************)
(* Emergency ambulance dispatch: the request path of the Flask endpoint    *)
(* POST /api/emergency (src/app.py), EmergencyResponseService              *)
(* .handle_emergency_call (src/emergency_service.py), the context          *)
(* collector (src/data_collector.py), the preprocessor                     *)
(* (src/data_preprocessor.py) and the analytics log; the startup of the    *)
(* service (_initialize_system), the performance report                    *)
(* (GET /api/analytics/report) and the simulation (POST /api/simulate).    *)
(*                                                                         *)
(* Coordinates are degrees scaled by 10^4, times are whole minutes and     *)
(* confidences are percent, so that every comparison is on integers.       *)
(* The route optimizer, the traffic predictor and the distance calculator  *)
(* are imported by the service but their code is not part of src/; their   *)
(* results are drawn from bounded sets and their failures are exceptions   *)
(* raised into handle_emergency_call.                                      *)
(***************************************************************************)
EXTENDS Integers, Sequences, FiniteSets, TLC

VARIABLES
    deployment,          \* "sequential": one request at a time; "threaded": Flask's threaded server;
                         \* "loaded": one request at a time, preprocessor loaded from saved files;
                         \* "deterministic", "analytics", "simulation", "startup": see the specifications
    fitted_columns,      \* columns of the frame the loaded models were fitted on
    system,              \* what _initialize_system has set up so far, and where it stands
    args,                \* per worker: parameters of the report or simulation request being served
    simulation,          \* per worker: test_emergencies and simulation_results of simulate_emergency_response
    feature_columns,     \* DataPreprocessor.feature_columns (shared)
    response_history,    \* EmergencyAnalytics.response_history (shared)
    pc,                  \* per worker: position in handle_emergency / handle_emergency_call
    entry,               \* per worker: "api" (POST /api/emergency), "direct" (main.py),
                         \* "report" (GET /api/analytics/report) or "simulate" (POST /api/simulate)
    emergency_data,      \* per worker: the request dictionary
    current_data,        \* per worker: snapshot returned by collect_all_data
    df_columns,          \* per worker: the one-row dataframe df of preprocess_single_sample, column -> value
    features,            \* per worker: X returned by preprocess_single_sample
    hospital_options,    \* per worker: ranking returned by find_optimal_hospital
    idx,                 \* per worker: loop index i+1 over hospital_options[:3]
    route_options,       \* per worker: routes of the hospital being evaluated
    route_predictions,   \* per worker: predictions made so far for these routes
    optimized_responses, \* per worker: one entry per evaluated hospital
    error,               \* per worker: the exception caught at line 196, or "none"
    result,              \* per worker: what handle_emergency_call returned (or that it raised)
    http,                \* per worker: HTTP status answered by the endpoint, 0 if none
    phase                \* per worker: last phase of the request state machine completed

vars == <<deployment, fitted_columns, system, args, simulation, feature_columns, response_history, pc, entry, emergency_data,
          current_data, df_columns, features, hospital_options, idx, route_options,
          route_predictions, optimized_responses, error, result, http, phase>>

(* service: what no step of handle_emergency or handle_emergency_call writes *)
service == <<deployment, fitted_columns, system, args, simulation>>
shared == <<feature_columns, response_history>>
request == <<entry, emergency_data>>
context == <<current_data, df_columns, features>>
loop == <<hospital_options, idx, route_options, route_predictions, optimized_responses>>

-----------------------------------------------------------------------------
(* Bounds of the model *)

NumWorkers == 2     \* worker threads of the threaded deployment
MaxRanked == 4      \* longest ranking find_optimal_hospital returns
MaxRoutes == 2      \* most route candidates get_multiple_route_options returns
MaxSim == 2         \* largest num_emergencies a simulation is asked for
MaxLog == 2         \* analytics entries after which no further API request is admitted

Workers == 1..NumWorkers

-----------------------------------------------------------------------------
(* Python dictionaries are functions; d.get(k, default) *)

Get(d, k, default) == IF k \in DOMAIN d THEN d[k] ELSE default

Range(s) == {s[i] : i \in DOMAIN s}

None == "None"

-----------------------------------------------------------------------------
(* Config.CITY_BOUNDS, degrees * 10^4 *)

CITY_BOUNDS == [north |-> 131986, south |-> 127340, east |-> 778431, west |-> 773910]

(* EmergencyResponseService._load_hospital_database *)
Hospitals == <<
    [id |-> "H001", lat |-> 129698, lon |-> 777500, current_wait_time |-> 20],
    [id |-> "H002", lat |-> 129056, lon |-> 775936, current_wait_time |-> 15],
    [id |-> "H003", lat |-> 129926, lon |-> 775985, current_wait_time |-> 30],
    [id |-> "H004", lat |-> 128539, lon |-> 776648, current_wait_time |-> 10],
    [id |-> "H005", lat |-> 129279, lon |-> 776271, current_wait_time |-> 25] >>

HospitalIdx == DOMAIN Hospitals

(* Condition codes the system knows (_generate_test_emergencies) *)
Conditions == {"cardiac", "stroke", "trauma", "respiratory", "general"}

(* Requests: the test emergency of emergency_service.py, and variants of it
   with a coordinate missing, a location outside the city, an unknown
   condition code, and no optional field at all. *)
TestEmergency ==
    [call_id |-> "EMG_001", latitude |-> 129716, longitude |-> 775946,
     condition |-> "cardiac", priority |-> "critical"]

EmergencyInputs == {
    TestEmergency,
    [call_id |-> "EMG_002", longitude |-> 775946, condition |-> "cardiac", priority |-> "critical"],
    [call_id |-> "EMG_003", latitude |-> 129716, condition |-> "trauma", priority |-> "high"],
    [call_id |-> "EMG_004", latitude |-> 140000, longitude |-> 775946,
     condition |-> "stroke", priority |-> "high"],
    [call_id |-> "EMG_005", latitude |-> 129716, longitude |-> 775946,
     condition |-> "headache", priority |-> "medium"],
    [latitude |-> 129279, longitude |-> 776271] }

ConcInputs == {TestEmergency, [latitude |-> 129279, longitude |-> 776271]}

-----------------------------------------------------------------------------
(* DataCollector (src/data_collector.py) *)

(* _get_default_weather *)
DefaultWeather ==
    [temperature |-> 25, humidity |-> 60, pressure |-> 1013, visibility |-> 10,
     wind_speed |-> 3, wind_direction |-> 0, weather_condition |-> "Clear",
     weather_description |-> "clear sky", is_raining |-> 0, is_snowing |-> 0,
     rain_intensity |-> 0, timestamp |-> "now", temp_trend |-> 0,
     max_temp_6h |-> 25, rain_forecast_6h |-> FALSE]

(* _extract_weather_features: the forecast fields are added only when the
   forecast answer holds a 'list' *)
ExtractWeatherFeatures(has_forecast) ==
    LET base == [temperature |-> 22, humidity |-> 80, pressure |-> 1008, visibility |-> 6,
                 wind_speed |-> 5, wind_direction |-> 90, weather_condition |-> "Rain",
                 weather_description |-> "light rain", is_raining |-> 1, is_snowing |-> 0,
                 rain_intensity |-> 2, timestamp |-> "now"]
    IN  IF has_forecast
        THEN base @@ [temp_trend |-> 1, max_temp_6h |-> 24, rain_forecast_6h |-> TRUE]
        ELSE base

(* get_weather_data: any exception of the two calls gives the default record *)
WeatherCalls == {"ok", "ok_no_forecast", "error"}

(* A collector that answers an error with the fields it could extract *)
GetWeatherDataWithoutDefault(call) ==
    IF call = "ok" THEN ExtractWeatherFeatures(TRUE) ELSE ExtractWeatherFeatures(FALSE)

GetWeatherData(call) ==
    CASE call = "ok" -> ExtractWeatherFeatures(TRUE)
      [] call = "ok_no_forecast" -> ExtractWeatherFeatures(FALSE)
      [] OTHER -> DefaultWeather

(* _extract_route_features for one route of the directions answer *)
RouteFeatures ==
    [distance_km |-> 12, duration_traffic_min |-> 30, duration_normal_min |-> 20,
     traffic_delay_min |-> 10, traffic_ratio |-> 2, summary |-> "ORR"]

(* get_traffic_data: a status other than OK, or an exception, gives [] *)
TrafficCalls == {"ok", "not_ok", "error"}

GetTrafficData(call) == IF call = "ok" THEN <<RouteFeatures>> ELSE <<>>

(* get_realtime_incidents: the two mock incidents *)
GetRealtimeIncidents ==
    << [type |-> "accident", severity |-> "major"],
       [type |-> "construction", severity |-> "moderate"] >>

(* _check_holiday, _check_school_hours *)
CheckHoliday(now) == 0

(* School hours that do not look at the day of the week *)
CheckSchoolHoursAnyDay(now) == IF 7 <= now.hour /\ now.hour <= 17 THEN 1 ELSE 0

CheckSchoolHours(now) ==
    IF now.weekday >= 5 THEN 0
    ELSE IF 7 <= now.hour /\ now.hour <= 17 THEN 1
    ELSE 0

(* get_contextual_data at wall-clock instant now = [hour, weekday, month] *)
GetContextualData(now) ==
    [hour |-> now.hour,
     day_of_week |-> now.weekday,
     is_weekend |-> IF now.weekday >= 5 THEN 1 ELSE 0,
     is_rush_hour |-> IF (7 <= now.hour /\ now.hour <= 10) \/ (17 <= now.hour /\ now.hour <= 20)
                      THEN 1 ELSE 0,
     is_night |-> IF 22 <= now.hour \/ now.hour <= 6 THEN 1 ELSE 0,
     month |-> now.month,
     is_holiday |-> CheckHoliday(now),
     is_school_time |-> CheckSchoolHours(now)]

(* Instants at which a request is served *)
Instants == { [hour |-> 8, weekday |-> 0, month |-> 8],
              [hour |-> 23, weekday |-> 6, month |-> 8] }

(* Every hour of every day of the week *)
AllInstants == { [hour |-> h, weekday |-> d, month |-> 8] : h \in 0..23, d \in 0..6 }

(* generate_synthetic_training_data, lines 99-104: the contextual flags of a
   training row *)
SyntheticContextualFlags(hour, day_of_week, is_holiday) ==
    LET is_weekend == IF day_of_week >= 5 THEN 1 ELSE 0 IN
    [is_weekend |-> is_weekend,
     is_rush_hour |-> IF (7 <= hour /\ hour <= 10) \/ (17 <= hour /\ hour <= 20) THEN 1 ELSE 0,
     is_night |-> IF 22 <= hour \/ hour <= 6 THEN 1 ELSE 0,
     is_holiday |-> is_holiday,
     is_school_time |-> IF is_weekend = 0 /\ 7 <= hour /\ hour <= 17 /\ is_holiday = 0
                        THEN 1 ELSE 0]

(* collect_all_data *)
CollectAllData(weather_call, traffic_call, now) ==
    [weather |-> GetWeatherData(weather_call),
     traffic |-> GetTrafficData(traffic_call),
     contextual |-> GetContextualData(now),
     incidents |-> GetRealtimeIncidents]

-----------------------------------------------------------------------------
(* DataPreprocessor (src/data_preprocessor.py) *)

(* prepare_features: the hard-coded feature list, in its order *)
FEATURE_COLUMNS == <<
    "hour", "day_of_week", "month",
    "temperature", "humidity", "pressure", "visibility", "wind_speed",
    "is_raining", "is_snowing", "rain_intensity", "temp_trend", "rain_forecast_6h",
    "is_weekend", "is_rush_hour", "is_night", "is_holiday", "is_school_time",
    "distance_km", "duration_normal_min", "historical_traffic_ratio",
    "num_accidents", "num_construction", "major_incident_nearby",
    "sin_hour", "cos_hour", "sin_day", "cos_day", "sin_month", "cos_month" >>

(* Training data without the three traffic columns *)
TrainedSchemaWithoutTraffic ==
    SelectSeq(FEATURE_COLUMNS,
              LAMBDA col : col \notin {"distance_km", "duration_normal_min",
                                       "historical_traffic_ratio"})

(* The schema the models were trained on: generate_synthetic_training_data
   produces every column of FEATURE_COLUMNS, so prepare_features kept all *)
TrainedSchema == FEATURE_COLUMNS

(* An empty dictionary *)
EmptyDict == [k \in {} |-> 0]

(* int(b) of a Python bool *)
BoolToInt(b) == IF b THEN 1 ELSE 0

(* np.sin(2 * np.pi * x / period) and np.cos(...), times 1000 and rounded, for
   the periods 24 (hour), 7 (day of week) and 12 (month) *)
Sin1000(x, period) ==
    CASE period = 24 ->
            <<0, 259, 500, 707, 866, 966, 1000, 966, 866, 707, 500, 259,
              0, -259, -500, -707, -866, -966, -1000, -966, -866, -707, -500, -259>>[x + 1]
      [] period = 7 -> <<0, 782, 975, 434, -434, -975, -782>>[x + 1]
      [] period = 12 ->
            <<0, 500, 866, 1000, 866, 500, 0, -500, -866, -1000, -866, -500, 0>>[x + 1]

Cos1000(x, period) ==
    CASE period = 24 ->
            <<1000, 966, 866, 707, 500, 259, 0, -259, -500, -707, -866, -966,
              -1000, -966, -866, -707, -500, -259, 0, 259, 500, 707, 866, 966>>[x + 1]
      [] period = 7 -> <<1000, 623, -223, -901, -901, -223, 623>>[x + 1]
      [] period = 12 ->
            <<1000, 866, 500, 0, -500, -866, -1000, -866, -500, 0, 500, 866, 1000>>[x + 1]

(* create_training_features: the feature dictionary of a snapshot *)
CreateTrainingFeatures(data_dict) ==
    LET weather_features ==
            IF "weather" \in DOMAIN data_dict
            THEN LET weather == data_dict.weather IN
                 [temperature |-> weather.temperature,
                  humidity |-> weather.humidity,
                  pressure |-> weather.pressure,
                  visibility |-> weather.visibility,
                  wind_speed |-> weather.wind_speed,
                  is_raining |-> weather.is_raining,
                  is_snowing |-> weather.is_snowing,
                  rain_intensity |-> weather.rain_intensity,
                  temp_trend |-> Get(weather, "temp_trend", 0),
                  rain_forecast_6h |-> BoolToInt(Get(weather, "rain_forecast_6h", FALSE))]
            ELSE EmptyDict
        contextual_features ==
            IF "contextual" \in DOMAIN data_dict
            THEN LET contextual == data_dict.contextual IN
                 [hour |-> contextual.hour,
                  day_of_week |-> contextual.day_of_week,
                  is_weekend |-> contextual.is_weekend,
                  is_rush_hour |-> contextual.is_rush_hour,
                  is_night |-> contextual.is_night,
                  month |-> contextual.month,
                  is_holiday |-> contextual.is_holiday,
                  is_school_time |-> contextual.is_school_time]
            ELSE EmptyDict
        traffic_features ==
            IF "traffic" \in DOMAIN data_dict /\ data_dict.traffic # <<>>
            THEN LET traffic == data_dict.traffic[1] IN
                 [distance_km |-> traffic.distance_km,
                  duration_normal_min |-> traffic.duration_normal_min,
                  historical_traffic_ratio |-> Get(traffic, "traffic_ratio", 1)]
            ELSE EmptyDict
        incident_features ==
            IF "incidents" \in DOMAIN data_dict
            THEN LET incidents == data_dict.incidents IN
                 [num_accidents |->
                      Cardinality({i \in DOMAIN incidents : incidents[i].type = "accident"}),
                  num_construction |->
                      Cardinality({i \in DOMAIN incidents : incidents[i].type = "construction"}),
                  major_incident_nearby |->
                      BoolToInt(\E i \in DOMAIN incidents : incidents[i].severity = "major")]
            ELSE EmptyDict
        features_so_far ==
            weather_features @@ contextual_features @@ traffic_features @@ incident_features
        hour == Get(features_so_far, "hour", 0)
        day == Get(features_so_far, "day_of_week", 0)
        month == Get(features_so_far, "month", 1)
    IN  features_so_far @@
        [sin_hour |-> Sin1000(hour, 24), cos_hour |-> Cos1000(hour, 24),
         sin_day |-> Sin1000(day, 7), cos_day |-> Cos1000(day, 7),
         sin_month |-> Sin1000(month, 12), cos_month |-> Cos1000(month, 12)]

(* A dataframe left as create_training_features gave it *)
KeepColumns(df, schema) == df

(* preprocess_single_sample, lines 259-262: every column of the schema that the
   one-row dataframe lacks is added with the value 0 *)
AddMissingColumns(df, schema) ==
    [col \in DOMAIN df \cup Range(schema) |-> IF col \in DOMAIN df THEN df[col] ELSE 0]

(* prepare_features, lines 207-208: the hard-coded columns the dataframe has,
   in the hard-coded order *)
AvailableColumns(columns) == SelectSeq(FEATURE_COLUMNS, LAMBDA col : col \in columns)

(* prepare_features, lines 216-219: the columns the StandardScaler transforms *)
NumericalFeatures ==
    {"temperature", "humidity", "pressure", "visibility", "wind_speed",
     "rain_intensity", "temp_trend", "distance_km", "duration_normal_min"}

(* The StandardScaler fitted on the synthetic frame: mean and standard
   deviation of each numerical column, rounded to whole units *)
ScalerMean ==
    [temperature |-> 25, humidity |-> 65, pressure |-> 1013, visibility |-> 9,
     wind_speed |-> 3, rain_intensity |-> 0, temp_trend |-> 0, distance_km |-> 13,
     duration_normal_min |-> 40]

ScalerStd ==
    [temperature |-> 8, humidity |-> 14, pressure |-> 10, visibility |-> 1,
     wind_speed |-> 3, rain_intensity |-> 1, temp_trend |-> 1, distance_km |-> 7,
     duration_normal_min |-> 22]

(* scaler.transform for one value: (v - mean) / std, in hundredths *)
ScalerTransform(col, v) == ((v - ScalerMean[col]) * 100) \div ScalerStd[col]

(* prepare_features(df, target_column=None, fit_scalers=False), lines 211-225:
   X = df[available_columns] with the numerical columns transformed *)
SelectAndScale(df) ==
    LET available_columns == AvailableColumns(DOMAIN df) IN
    [columns |-> available_columns,
     row |-> [col \in Range(available_columns) |->
                 IF col \in NumericalFeatures THEN ScalerTransform(col, df[col]) ELSE df[col]]]

(* scaler.transform, line 228: the fitted StandardScaler raises ValueError
   unless it is given the numerical columns it was fitted on *)
ScalerAccepts(columns, fitted) ==
    NumericalFeatures \cap Range(columns) = NumericalFeatures \cap Range(fitted)

(* No feature vector yet *)
NoFeatures == [columns |-> <<>>, row |-> EmptyDict]

-----------------------------------------------------------------------------
(* Collaborators whose code is not under src/: RouteOptimizer,
   EmergencyTrafficPredictor, DistanceCalculator *)

Abs(x) == IF x < 0 THEN 0 - x ELSE x

(* Straight-line distance between a point and a hospital (squared, in 10^-4 degrees) *)
StraightLineDistance(lat, lon, h) ==
    (lat - Hospitals[h].lat) * (lat - Hospitals[h].lat)
    + (lon - Hospitals[h].lon) * (lon - Hospitals[h].lon)

(* DistanceCalculator.calculate_travel_time(emergency_location, hospital_location):
   minutes, a function of the two end points only *)
CalculateTravelTime(lat, lon, h) ==
    1 + (Abs(lat - Hospitals[h].lat) + Abs(lon - Hospitals[h].lon)) \div 200

(* RouteOptimizer.find_optimal_hospital: a ranking of distinct registry hospitals,
   best first. The rankings enumerated are the prefixes of three orders of the
   registry: by id, by wait time ascending, and one that ranks the longest
   wait first. *)
BaseOrders == { <<1, 2, 3, 4, 5>>, <<4, 2, 1, 5, 3>>, <<3, 4, 1, 2, 5>> }

Min2(a, b) == IF a < b THEN a ELSE b

AllRankings == { SubSeq(o, 1, n) : o \in BaseOrders, n \in 0..Min2(MaxRanked, Len(Hospitals)) }

ConcRankings == { <<3, 4>> }

(* EmergencyTrafficPredictor.predict_emergency_travel_time: travel time in
   minutes and confidence in percent, as the fitted models give them *)
AllPredictions == { [travel_time |-> 5, confidence |-> 90],
                    [travel_time |-> 10, confidence |-> 50] }

ConcPredictions == { [travel_time |-> 5, confidence |-> 90] }

(* The prediction dictionary for one route *)
PredictEmergencyTravelTime(choice, base_duration) ==
    [travel_time |-> choice.travel_time,
     normal_travel_time |-> base_duration,
     confidence |-> choice.confidence]

-----------------------------------------------------------------------------
(* The environment's answers, by deployment. Served alone, a request sees
   every combination of the weather and traffic calls at one instant, and the
   live answers at a second instant; direct callers pass the test emergency or
   a dictionary without a coordinate. Under the threaded server the answers
   are few, so that the interleavings can be enumerated. *)

Detailed == deployment = "sequential"

Morning == [hour |-> 8, weekday |-> 0, month |-> 8]

Analytics == deployment = "analytics"

(* request.json of a body that is the JSON value null *)
NullBody == [json_null |-> TRUE]

IsMapping(body) == "json_null" \notin DOMAIN body

(* Bodies posted while the report is studied: two conditions and priorities,
   and a body with the two required fields only *)
AnalyticsInputs ==
    { TestEmergency,
      [call_id |-> "EMG_006", latitude |-> 129716, longitude |-> 775946,
       condition |-> "trauma", priority |-> "high"],
      [latitude |-> 129279, longitude |-> 776271] }

ApiInputs ==
    IF Detailed THEN EmergencyInputs \cup {NullBody}
    ELSE IF Analytics THEN AnalyticsInputs
    ELSE ConcInputs

(* Days on which datetime.now() falls, counted from the start of the server,
   and the values of the days parameter of the report *)
DayChoices == IF Analytics THEN {0, 40} ELSE {0}
PeriodChoices == IF Analytics THEN {0, 30} ELSE {30}

DirectInputs ==
    IF Detailed
    THEN {d \in EmergencyInputs : d = TestEmergency \/ ~("latitude" \in DOMAIN d /\ "longitude" \in DOMAIN d)}
    ELSE {TestEmergency}

SnapshotChoices ==
    IF deployment = "contextual"
    THEN {<<"ok", "ok", now>> : now \in AllInstants}
    ELSE IF Detailed
    THEN {<<w, t, Morning>> : w \in WeatherCalls, t \in TrafficCalls}
         \cup {<<"ok", "ok", now>> : now \in Instants}
    ELSE {<<"ok", t, Morning>> : t \in {"ok", "error"}}

(* What datetime.now() gives while a response is built *)
ClockChoices == IF Detailed THEN Instants ELSE {Morning}

(* The upstream calls that may stay without an answer *)
NoAnswerChoices == IF Detailed THEN {"weather", "traffic"} ELSE {}

(* The predictor answers equal inputs with equal predictions *)
Deterministic == deployment = "deterministic"

RankingChoices == IF Detailed THEN AllRankings ELSE ConcRankings
RouteCountChoices == IF Detailed \/ Deterministic THEN 0..MaxRoutes ELSE {1}
PredictionChoices == IF Detailed \/ Deterministic THEN AllPredictions ELSE ConcPredictions

-----------------------------------------------------------------------------
(* EmergencyResponseService (src/emergency_service.py) *)

Unset == [unset |-> TRUE]

(* The first four of the ranking *)
TopFour(options) == SubSeq(options, 1, Min2(4, Len(options)))

(* hospital_options[:3] *)
TopN(options) == SubSeq(options, 1, Min2(3, Len(options)))

(* Taking the first candidate instead of the minimum *)
FirstRoute(predictions) == predictions[1]

(* min(route_predictions, key=total_response_time): the first minimal element *)
BestRoute(predictions) ==
    LET i == CHOOSE i \in DOMAIN predictions :
                 /\ \A j \in DOMAIN predictions :
                        predictions[i].total_response_time <= predictions[j].total_response_time
                 /\ \A j \in 1..(i - 1) :
                        predictions[j].total_response_time > predictions[i].total_response_time
    IN  predictions[i]

(* Alternatives listed from the first entry on *)
AlternativeOptionsFromWinner(responses) ==
    [k \in 1..Min2(2, Len(responses)) |->
        [hospital_name |-> Hospitals[responses[k].hospital].id,
         travel_time |-> responses[k].best_route.prediction.travel_time,
         total_time |-> responses[k].best_route.total_response_time,
         rank |-> responses[k].rank]]

(* _generate_final_recommendation, lines 236-244: optimized_responses[1:3] *)
AlternativeOptions(responses) ==
    [k \in 1..Min2(2, Len(responses) - 1) |->
        [hospital_name |-> Hospitals[responses[k + 1].hospital].id,
         travel_time |-> responses[k + 1].best_route.prediction.travel_time,
         total_time |-> responses[k + 1].best_route.total_response_time,
         rank |-> responses[k + 1].rank]]

(* Recommending the evaluated hospital of least total response time *)
LeastTotalOption(responses) ==
    responses[CHOOSE i \in DOMAIN responses :
                 \A j \in DOMAIN responses :
                     \/ responses[i].best_route.total_response_time
                            < responses[j].best_route.total_response_time
                     \/ /\ responses[i].best_route.total_response_time
                               = responses[j].best_route.total_response_time
                        /\ i <= j]

(* line 202: best_option = optimized_responses[0] *)
BestOption(responses) == responses[1]

(* _generate_final_recommendation, when optimized_responses is not empty; now
   is what datetime.now() gives while the response is built *)
GenerateFinalRecommendation(responses, data, current, now) ==
    LET best_option == BestOption(responses) IN
    [call_id |-> Get(data, "call_id", None),
     timestamp |-> now,
     emergency_location |-> [latitude |-> data.latitude, longitude |-> data.longitude],
     patient_info |-> [condition |-> Get(data, "condition", "general"),
                       priority |-> Get(data, "priority", "high")],
     recommended_hospital |-> [id |-> Hospitals[best_option.hospital].id,
                               current_wait_time |-> Hospitals[best_option.hospital].current_wait_time],
     optimal_route |-> [algorithm |-> best_option.best_route.route,
                        estimated_time |-> best_option.best_route.prediction.travel_time,
                        confidence |-> best_option.best_route.prediction.confidence],
     alternative_options |-> AlternativeOptions(responses),
     current_conditions |-> [weather |-> current.weather.weather_condition,
                             traffic_level |-> IF current.contextual.is_rush_hour = 1
                                               THEN "Heavy" ELSE "Moderate",
                             incidents |-> Len(current.incidents),
                             temperature |-> current.weather.temperature],
     eta |-> [start |-> now, minutes |-> best_option.best_route.prediction.travel_time],
     performance_metrics |->
        [confidence_score |-> best_option.best_route.prediction.confidence]]

(* A fallback response that reports the patient's condition as well *)
GenerateFallbackResponseWithCondition(data, now) ==
    [call_id |-> Get(data, "call_id", None),
     timestamp |-> now,
     status |-> "fallback",
     message |-> "Using standard emergency protocols",
     condition |-> Get(data, "condition", "general"),
     emergency_location |-> [latitude |-> data.latitude, longitude |-> data.longitude],
     recommendation |-> "Dispatch to nearest available hospital using standard routes"]

(* _generate_fallback_response, when emergency_data holds both coordinates *)
GenerateFallbackResponse(data, now) ==
    [call_id |-> Get(data, "call_id", None),
     timestamp |-> now,
     status |-> "fallback",
     message |-> "Using standard emergency protocols",
     emergency_location |-> [latitude |-> data.latitude, longitude |-> data.longitude],
     recommendation |-> "Dispatch to nearest available hospital using standard routes"]

HasCoordinates(data) == "latitude" \in DOMAIN data /\ "longitude" \in DOMAIN data

(* A fallback generator that indexes emergency_data['call_id'] as well *)
FallbackNeedsCallId(data) == HasCoordinates(data) /\ "call_id" \in DOMAIN data

(* _generate_fallback_response returns iff the keys it indexes are present:
   'latitude' and 'longitude' (call_id is read with .get) *)
FallbackReturns(data) == HasCoordinates(data)

-----------------------------------------------------------------------------
(* State after construction: EmergencyResponseService() and EmergencyAnalytics()
   of app.py; every worker is idle *)

InitWorkers ==
    /\ response_history = <<>>
    /\ args = [r \in Workers |-> Unset]
    /\ simulation = [r \in Workers |-> Unset]
    /\ pc = [r \in Workers |-> "idle"]
    /\ entry = [r \in Workers |-> "none"]
    /\ emergency_data = [r \in Workers |-> Unset]
    /\ current_data = [r \in Workers |-> Unset]
    /\ df_columns = [r \in Workers |-> EmptyDict]
    /\ features = [r \in Workers |-> NoFeatures]
    /\ hospital_options = [r \in Workers |-> <<>>]
    /\ idx = [r \in Workers |-> 0]
    /\ route_options = [r \in Workers |-> <<>>]
    /\ route_predictions = [r \in Workers |-> <<>>]
    /\ optimized_responses = [r \in Workers |-> <<>>]
    /\ error = [r \in Workers |-> "none"]
    /\ result = [r \in Workers |-> Unset]
    /\ http = [r \in Workers |-> 0]
    /\ phase = [r \in Workers |-> "NONE"]

(* EmergencyResponseService.__init__, lines 20-29: nothing is loaded or trained
   when _initialize_system is entered *)
Constructed ==
    [stage |-> "load_models", models |-> "none", preprocessor |-> "none",
     failed_load |-> "none", road_network |-> FALSE, hospital_database |-> FALSE]

(* _initialize_system has run to its last line *)
Started(models, preprocessor) ==
    [stage |-> "ready", models |-> models, preprocessor |-> preprocessor,
     failed_load |-> IF models = "trained" THEN "models" ELSE "none",
     road_network |-> TRUE, hospital_database |-> TRUE]

(* app.py: the service is constructed at line 16, when the module is imported;
   requests are served by app.run at line 284 *)
Serving == system.stage = "ready"

(* _initialize_system: the models and the preprocessor trained together on the
   synthetic frame (or loaded as _train_initial_models saved them) *)
TrainedInit ==
    /\ system = Started("trained", "trained")
    /\ fitted_columns = TrainedSchema
    /\ feature_columns = TrainedSchema

Init == deployment = "sequential" /\ TrainedInit /\ InitWorkers

ThreadedInit == deployment = "threaded" /\ TrainedInit /\ InitWorkers

(* An exception that is swallowed: control goes on to the final recommendation *)
RaiseSwallowed(r, exception) ==
    /\ pc' = [pc EXCEPT ![r] = "final"]
    /\ error' = [error EXCEPT ![r] = exception]
    /\ phase' = [phase EXCEPT ![r] = "FAILED"]

(* An exception raised inside the try block of handle_emergency_call: control
   goes to the handler at line 196 *)
Raise(r, exception) ==
    /\ pc' = [pc EXCEPT ![r] = "except"]
    /\ error' = [error EXCEPT ![r] = exception]
    /\ phase' = [phase EXCEPT ![r] = "FAILED"]

Goto(r, label) == pc' = [pc EXCEPT ![r] = label]

-----------------------------------------------------------------------------
(* POST /api/emergency (src/app.py, handle_emergency) *)

(* line 28: a request body arrives *)
ApiRequest(r) ==
    /\ Serving
    /\ pc[r] = "idle"
    /\ Len(response_history) < MaxLog
    /\ \E data \in ApiInputs :
          emergency_data' = [emergency_data EXCEPT ![r] = data]
    /\ entry' = [entry EXCEPT ![r] = "api"]
    /\ Goto(r, "validate")
    /\ UNCHANGED <<service, shared, context, loop, error, result, http, phase>>

(* A validation that is content with one of the two fields *)
AnyFieldPresent(data) == \E field \in {"latitude", "longitude"} : field \in DOMAIN data

(* lines 30-36: the required fields *)
RequiredFieldsPresent(data) == \A field \in {"latitude", "longitude"} : field \in DOMAIN data

(* `field in emergency_data` raises TypeError when the body is None; the
   handler at lines 49-55 answers 500 *)
ValidateFields(r) ==
    /\ pc[r] = "validate"
    /\ IF ~IsMapping(emergency_data[r])
       THEN Goto(r, "done") /\ http' = [http EXCEPT ![r] = 500]
       ELSE IF RequiredFieldsPresent(emergency_data[r])
       THEN Goto(r, "call") /\ UNCHANGED http
       ELSE Goto(r, "done") /\ http' = [http EXCEPT ![r] = 400]
    /\ UNCHANGED <<service, shared, request, context, loop, error, result, phase>>

(* main.py, simulate_emergency_response: handle_emergency_call called directly *)
DirectCall(r) ==
    /\ Serving
    /\ pc[r] = "idle"
    /\ \E data \in DirectInputs :
          emergency_data' = [emergency_data EXCEPT ![r] = data]
    /\ entry' = [entry EXCEPT ![r] = "direct"]
    /\ Goto(r, "call")
    /\ UNCHANGED <<service, shared, context, loop, error, result, http, phase>>

-----------------------------------------------------------------------------
(* handle_emergency_call *)

(* lines 113-114 *)
ReceiveCall(r) ==
    /\ pc[r] = "call"
    /\ Goto(r, "extract")
    /\ phase' = [phase EXCEPT ![r] = "RECEIVED"]
    /\ UNCHANGED <<service, shared, request, context, loop, error, result, http>>

(* lines 116-119: emergency_data['latitude'], emergency_data['longitude'] *)
ExtractInformation(r) ==
    /\ pc[r] = "extract"
    /\ IF HasCoordinates(emergency_data[r])
       THEN Goto(r, "collect") /\ UNCHANGED <<error, phase>>
       ELSE Raise(r, "KeyError")
    /\ UNCHANGED <<service, shared, request, context, loop, result, http>>

(* lines 121-125: collect_all_data returns a snapshot; requests.get is called
   without a timeout (data_collector.py lines 27, 40, 92), so the call stays
   blocked while an upstream service does not answer *)
CollectData(r) ==
    /\ pc[r] = "collect"
    /\ \/ /\ \E answer \in SnapshotChoices :
                current_data' = [current_data EXCEPT ![r] =
                                    CollectAllData(answer[1], answer[2], answer[3])]
          /\ Goto(r, "create_features")
       \/ /\ \E call \in NoAnswerChoices : Goto(r, "blocked")
          /\ UNCHANGED current_data
    /\ UNCHANGED <<service, shared, request, df_columns, features, loop, error, result,
                   http, phase>>

(* preprocess_single_sample, lines 254-257 *)
CreateFeatures(r) ==
    /\ pc[r] = "create_features"
    /\ df_columns' = [df_columns EXCEPT ![r] = CreateTrainingFeatures(current_data[r])]
    /\ Goto(r, "add_columns")
    /\ UNCHANGED <<service, shared, request, current_data, features, loop, error, result,
                   http, phase>>

(* preprocess_single_sample, lines 259-262: reads self.feature_columns *)
AddColumns(r) ==
    /\ pc[r] = "add_columns"
    /\ df_columns' = [df_columns EXCEPT ![r] = AddMissingColumns(df_columns[r], feature_columns)]
    /\ Goto(r, "prepare")
    /\ UNCHANGED <<service, shared, request, current_data, features, loop, error, result,
                   http, phase>>

(* prepare_features(df, target_column=None, fit_scalers=False): line 209 writes
   self.feature_columns, line 211 selects X *)
PrepareFeatures(r) ==
    /\ pc[r] = "prepare"
    /\ feature_columns' = AvailableColumns(DOMAIN df_columns[r])
    /\ IF ScalerAccepts(AvailableColumns(DOMAIN df_columns[r]), fitted_columns)
       THEN /\ features' = [features EXCEPT ![r] = SelectAndScale(df_columns[r])]
            /\ Goto(r, "rank")
            /\ phase' = [phase EXCEPT ![r] = "CONTEXT_READY"]
            /\ UNCHANGED error
       ELSE /\ Raise(r, "ScalerValueError")
            /\ UNCHANGED features
    /\ UNCHANGED <<service, response_history, request, current_data, df_columns, loop,
                   result, http>>

(* lines 130-139: find_optimal_hospital returns a ranking, or raises *)
RankHospitals(r) ==
    /\ pc[r] = "rank"
    /\ \/ /\ \E ranking \in RankingChoices :
                /\ hospital_options' = [hospital_options EXCEPT ![r] = ranking]
                /\ Goto(r, IF TopN(ranking) = <<>> THEN "final" ELSE "routes")
          /\ idx' = [idx EXCEPT ![r] = 1]
          /\ phase' = [phase EXCEPT ![r] = "HOSPITALS_RANKED"]
          /\ UNCHANGED error
       \/ /\ Raise(r, "RankingError")
          /\ UNCHANGED <<hospital_options, idx>>
    /\ UNCHANGED <<service, shared, request, context, route_options, route_predictions,
                   optimized_responses, result, http>>

(* lines 140-149: get_multiple_route_options returns candidates, or raises *)
GetRoutes(r) ==
    /\ pc[r] = "routes"
    /\ \/ /\ \E n \in RouteCountChoices :
                /\ route_options' = [route_options EXCEPT ![r] = [j \in 1..n |-> j]]
                /\ Goto(r, IF n = 0 THEN "select" ELSE "predict")
          /\ route_predictions' = [route_predictions EXCEPT ![r] = <<>>]
          /\ phase' = [phase EXCEPT ![r] = "ROUTES_GENERATED"]
          /\ UNCHANGED error
       \/ /\ Raise(r, "NoRouteFoundError")
          /\ UNCHANGED <<route_options, route_predictions>>
    /\ UNCHANGED <<service, shared, request, context, hospital_options, idx,
                   optimized_responses, result, http>>

(* Prediction inputs that include the route the prediction is for *)
PredictionInputsPerRoute(r, route) ==
    [route |-> route,
     features |-> features[r],
     base_duration |-> CalculateTravelTime(emergency_data[r].latitude,
                                           emergency_data[r].longitude,
                                           TopN(hospital_options[r])[idx[r]]),
     vehicle_type |-> "ambulance",
     emergency_priority |-> Get(emergency_data[r], "priority", "high")]

(* lines 152-160: what predict_emergency_travel_time is given for a route: the
   features of the request, the base duration between the emergency and the
   hospital, the vehicle type and the priority *)
PredictionInputs(r, route) ==
    [features |-> features[r],
     base_duration |-> CalculateTravelTime(emergency_data[r].latitude,
                                           emergency_data[r].longitude,
                                           TopN(hospital_options[r])[idx[r]]),
     vehicle_type |-> "ambulance",
     emergency_priority |-> Get(emergency_data[r], "priority", "high")]

(* A deterministic predictor gives, for inputs it was already given for an
   earlier route of this hospital, the prediction it gave then *)
AnswersAsBefore(r, choice) ==
    LET route == route_options[r][Len(route_predictions[r]) + 1]
        inputs == PredictionInputs(r, route)
    IN  Deterministic =>
            \A k \in DOMAIN route_predictions[r] :
                PredictionInputs(r, route_options[r][k]) = inputs =>
                    route_predictions[r][k].prediction
                        = PredictEmergencyTravelTime(choice, inputs.base_duration)

(* lines 150-173, one iteration: the next route of route_options *)
RoutePrediction(r, choice) ==
    LET hospital == TopN(hospital_options[r])[idx[r]]
        route == route_options[r][Len(route_predictions[r]) + 1]
        base_duration == PredictionInputs(r, route).base_duration
        prediction == PredictEmergencyTravelTime(choice, base_duration)
    IN  [route |-> route,
         prediction |-> prediction,
         total_response_time |-> prediction.travel_time + Hospitals[hospital].current_wait_time]

PredictRoute(r) ==
    /\ pc[r] = "predict"
    /\ \/ /\ features[r].columns = fitted_columns
          /\ \E choice \in PredictionChoices :
                /\ AnswersAsBefore(r, choice)
                /\ route_predictions' = [route_predictions EXCEPT ![r] =
                                            Append(@, RoutePrediction(r, choice))]
          /\ Goto(r, IF Len(route_predictions[r]) + 1 = Len(route_options[r])
                     THEN "select" ELSE "predict")
          /\ UNCHANGED <<error, phase>>
       \/ /\ features[r].columns = fitted_columns
          /\ Raise(r, "ModelNotTrainedError")
          /\ UNCHANGED route_predictions
       \/ /\ features[r].columns # fitted_columns
          /\ Raise(r, "FeatureSchemaError")
          /\ UNCHANGED route_predictions
    /\ UNCHANGED <<service, shared, request, context, hospital_options, idx, route_options,
                   optimized_responses, result, http>>

(* lines 175-186: min() of an empty list raises ValueError *)
OptimizedResponse(r) ==
    [hospital |-> TopN(hospital_options[r])[idx[r]],
     best_route |-> BestRoute(route_predictions[r]),
     rank |-> idx[r]]

SelectBestRoute(r) ==
    /\ pc[r] = "select"
    /\ IF route_predictions[r] = <<>>
       THEN /\ Raise(r, "ValueError")
            /\ UNCHANGED <<idx, route_options, route_predictions, optimized_responses>>
       ELSE /\ optimized_responses' = [optimized_responses EXCEPT ![r] =
                                          Append(@, OptimizedResponse(r))]
            /\ idx' = [idx EXCEPT ![r] = @ + 1]
            /\ Goto(r, IF idx[r] = Len(TopN(hospital_options[r])) THEN "final" ELSE "routes")
            /\ UNCHANGED <<route_options, route_predictions>>
            /\ phase' = [phase EXCEPT ![r] = "PREDICTED"]
            /\ UNCHANGED error
    /\ UNCHANGED <<service, shared, request, context, hospital_options, result, http>>

(* The locals of handle_emergency_call end with the call *)
ReturnFromCall(r) ==
    /\ Goto(r, "returned")
    /\ current_data' = [current_data EXCEPT ![r] = Unset]
    /\ df_columns' = [df_columns EXCEPT ![r] = EmptyDict]
    /\ features' = [features EXCEPT ![r] = NoFeatures]
    /\ hospital_options' = [hospital_options EXCEPT ![r] = <<>>]
    /\ idx' = [idx EXCEPT ![r] = 0]
    /\ route_options' = [route_options EXCEPT ![r] = <<>>]
    /\ route_predictions' = [route_predictions EXCEPT ![r] = <<>>]
    /\ optimized_responses' = [optimized_responses EXCEPT ![r] = <<>>]

(* lines 188-194: optimized_responses[0] of an empty list raises IndexError *)
GenerateRecommendation(r) ==
    /\ pc[r] = "final"
    /\ IF optimized_responses[r] = <<>>
       THEN Raise(r, "IndexError") /\ UNCHANGED <<result, context, loop>>
       ELSE /\ \E now \in ClockChoices :
                   result' = [result EXCEPT ![r] =
                                 GenerateFinalRecommendation(optimized_responses[r],
                                                             emergency_data[r],
                                                             current_data[r], now)]
            /\ ReturnFromCall(r)
            /\ phase' = [phase EXCEPT ![r] = "RECOMMENDED"]
            /\ UNCHANGED error
    /\ UNCHANGED <<service, shared, request, http>>

(* lines 196-198: _generate_fallback_response indexes emergency_data['latitude']
   and ['longitude']; a KeyError there leaves handle_emergency_call *)
HandleException(r) ==
    /\ pc[r] = "except"
    /\ IF FallbackReturns(emergency_data[r])
       THEN /\ \E now \in ClockChoices :
                   result' = [result EXCEPT ![r] =
                                 GenerateFallbackResponse(emergency_data[r], now)]
            /\ phase' = [phase EXCEPT ![r] = "FALLBACK"]
       ELSE /\ result' = [result EXCEPT ![r] = [raised |-> "KeyError"]]
            /\ UNCHANGED phase
    /\ ReturnFromCall(r)
    /\ UNCHANGED <<service, shared, request, error, http>>

-----------------------------------------------------------------------------
(* Back in the caller *)

Raised(response) == "raised" \in DOMAIN response

(* A log_response that puts the new entry in front of the others *)
LogResponseInFront(history, data, response, now) ==
    <<[timestamp |-> now, emergency |-> data, response |-> response,
       actual_outcome |-> None]>> \o history

(* EmergencyAnalytics.log_response; the timestamp is the day of datetime.now() *)
LogResponse(history, data, response, now) ==
    Append(history, [timestamp |-> now, emergency |-> data, response |-> response,
                     actual_outcome |-> None])

(* The clock does not go back: the days now can be, given the entries logged *)
LaterDays(history) ==
    {d \in DayChoices : \A i \in DOMAIN history : history[i].timestamp <= d}

(* app.py lines 41-55 *)
ApiRespond(r) ==
    /\ pc[r] = "returned"
    /\ entry[r] = "api"
    /\ IF Raised(result[r])
       THEN /\ http' = [http EXCEPT ![r] = 500]
            /\ UNCHANGED response_history
       ELSE /\ \E now \in LaterDays(response_history) :
                   response_history' = LogResponse(response_history, emergency_data[r],
                                                   result[r], now)
            /\ http' = [http EXCEPT ![r] = 200]
    /\ Goto(r, "done")
    /\ UNCHANGED <<service, feature_columns, request, context, loop, error, result, phase>>

(* the direct caller has the response *)
DirectReturn(r) ==
    /\ pc[r] = "returned"
    /\ entry[r] = "direct"
    /\ Goto(r, "done")
    /\ UNCHANGED <<service, shared, request, context, loop, error, result, http, phase>>

-----------------------------------------------------------------------------
(* GET /api/analytics/report (src/app.py, get_analytics_report) *)

RECURSIVE SumEstimatedTime(_)
SumEstimatedTime(entries) ==
    IF entries = <<>> THEN 0
    ELSE Head(entries).response.optimal_route.estimated_time + SumEstimatedTime(Tail(entries))

(* EmergencyAnalytics.generate_performance_report. np.mean is the sum over the
   count (nan when the count is 0); response['emergency']['condition'] and
   ['priority'] are subscripts and raise KeyError on an emergency without
   the key *)
GeneratePerformanceReport(history, now, time_period_days) ==
    LET cutoff_date == now - time_period_days
        recent_responses == SelectSeq(history, LAMBDA e : e.timestamp > cutoff_date)
        timed == SelectSeq(recent_responses, LAMBDA e : "optimal_route" \in DOMAIN e.response)
        Breakdown(key) ==
            [v \in {recent_responses[i].emergency[key] : i \in DOMAIN recent_responses} |->
                Cardinality({i \in DOMAIN recent_responses : recent_responses[i].emergency[key] = v})]
    IN  IF recent_responses = <<>>
        THEN [message |-> "No data available for the specified time period"]
        ELSE IF \E i \in DOMAIN recent_responses :
                    \E key \in {"condition", "priority"} :
                        key \notin DOMAIN recent_responses[i].emergency
        THEN [raised |-> "KeyError"]
        ELSE [period_days |-> time_period_days,
              total_emergencies |-> Len(recent_responses),
              avg_response_time_minutes |-> [sum |-> SumEstimatedTime(timed), count |-> Len(timed)],
              condition_breakdown |-> Breakdown("condition"),
              priority_breakdown |-> Breakdown("priority")]

(* lines 191-207: the report of the last `days` days, 500 if it raised *)
ReportRequest(r) ==
    /\ Serving
    /\ pc[r] = "idle"
    /\ \E days \in PeriodChoices, now \in LaterDays(response_history) :
          LET report == GeneratePerformanceReport(response_history, now, days)
          IN  /\ args' = [args EXCEPT ![r] = [days |-> days, now |-> now]]
              /\ result' = [result EXCEPT ![r] = report]
              /\ http' = [http EXCEPT ![r] = IF Raised(report) THEN 500 ELSE 200]
    /\ entry' = [entry EXCEPT ![r] = "report"]
    /\ Goto(r, "done")
    /\ UNCHANGED <<deployment, fitted_columns, system, simulation, shared, emergency_data,
                   context, loop, error, phase>>

-----------------------------------------------------------------------------
(* POST /api/simulate (src/app.py, run_simulation) and
   EmergencyResponseService.simulate_emergency_response *)

(* f'EMG_{date}_{i+1:03d}' for the day the server runs on *)
SimulatedCallIds == <<"EMG_20240801_001", "EMG_20240801_002", "EMG_20240801_003",
                      "EMG_20240801_004">>

(* What the random draws of _generate_test_emergencies may give for one
   emergency: a location inside CITY_BOUNDS, a condition, a priority *)
RandomDraws ==
    { [latitude |-> 129716, longitude |-> 775946, condition |-> "cardiac",
       priority |-> "critical", age |-> 45, gender |-> "M"],
      [latitude |-> 129279, longitude |-> 776271, condition |-> "general",
       priority |-> "medium", age |-> 30, gender |-> "F"] }

(* _generate_test_emergencies: the lists it may return *)
GenerateTestEmergencies(num_emergencies) ==
    { [i \in 1..num_emergencies |->
          [call_id |-> SimulatedCallIds[i],
           latitude |-> draws[i].latitude,
           longitude |-> draws[i].longitude,
           condition |-> draws[i].condition,
           priority |-> draws[i].priority,
           age |-> draws[i].age,
           gender |-> draws[i].gender,
           address |-> i]] : draws \in [1..num_emergencies -> RandomDraws] }

Successful(results) == SelectSeq(results, LAMBDA res : "optimal_route" \in DOMAIN res.response)

RECURSIVE SumTravelTime(_)
SumTravelTime(results) ==
    IF results = <<>> THEN 0
    ELSE Head(results).response.optimal_route.estimated_time + SumTravelTime(Tail(results))

(* lines 331-344: the statistics; the two divisions by num_emergencies raise
   ZeroDivisionError when it is 0. Rates are kept as numerator and denominator *)
SimulationSummary(num_emergencies, results) ==
    IF num_emergencies = 0
    THEN [raised |-> "ZeroDivisionError"]
    ELSE [total_emergencies |-> num_emergencies,
          avg_travel_time |-> [sum |-> SumTravelTime(Successful(results)),
                               count |-> Len(Successful(results))],
          success_rate |-> [numerator |-> Len(Successful(results)),
                            denominator |-> num_emergencies],
          results |-> results]

(* app.py lines 229-232 and line 311: the emergencies are generated *)
StartSimulation(r) ==
    /\ Serving
    /\ pc[r] = "idle"
    /\ \E num_emergencies \in 0..MaxSim :
          /\ args' = [args EXCEPT ![r] = [num_emergencies |-> num_emergencies]]
          /\ \E emergencies \in GenerateTestEmergencies(num_emergencies) :
                simulation' = [simulation EXCEPT ![r] =
                                  [emergencies |-> emergencies, results |-> <<>>]]
    /\ entry' = [entry EXCEPT ![r] = "simulate"]
    /\ Goto(r, "simulate")
    /\ UNCHANGED <<deployment, fitted_columns, system, shared, emergency_data, context, loop,
                   error, result, http, phase>>

(* lines 316-320: the next emergency is handed to handle_emergency_call *)
SimulateEmergency(r) ==
    /\ pc[r] = "simulate"
    /\ Len(simulation[r].results) < Len(simulation[r].emergencies)
    /\ emergency_data' = [emergency_data EXCEPT ![r] =
                             simulation[r].emergencies[Len(simulation[r].results) + 1]]
    /\ error' = [error EXCEPT ![r] = "none"]
    /\ result' = [result EXCEPT ![r] = Unset]
    /\ phase' = [phase EXCEPT ![r] = "NONE"]
    /\ Goto(r, "call")
    /\ UNCHANGED <<service, shared, entry, context, loop, http>>

(* lines 321-329: the response is appended to results; an exception of
   handle_emergency_call leaves the simulation and is answered 500 *)
CollectResult(r) ==
    /\ pc[r] = "returned"
    /\ entry[r] = "simulate"
    /\ IF Raised(result[r])
       THEN /\ http' = [http EXCEPT ![r] = 500]
            /\ Goto(r, "done")
            /\ UNCHANGED simulation
       ELSE /\ simulation' = [simulation EXCEPT ![r].results =
                                  Append(@, [emergency |-> emergency_data[r],
                                             response |-> result[r]])]
            /\ Goto(r, "simulate")
            /\ UNCHANGED http
    /\ UNCHANGED <<deployment, fitted_columns, system, args, shared, request, context, loop,
                   error, result, phase>>

(* lines 331-351 and app.py lines 234-243 *)
SummarizeSimulation(r) ==
    /\ pc[r] = "simulate"
    /\ Len(simulation[r].results) = Len(simulation[r].emergencies)
    /\ LET summary == SimulationSummary(args[r].num_emergencies, simulation[r].results)
       IN  /\ result' = [result EXCEPT ![r] = summary]
           /\ http' = [http EXCEPT ![r] = IF Raised(summary) THEN 500 ELSE 200]
    /\ Goto(r, "done")
    /\ UNCHANGED <<service, shared, request, context, loop, error, phase>>

Simulate(r) ==
    \/ StartSimulation(r)
    \/ SimulateEmergency(r)
    \/ CollectResult(r)
    \/ SummarizeSimulation(r)

-----------------------------------------------------------------------------
(* the worker thread is free for the next request *)
Finish(r) ==
    /\ pc[r] = "done"
    /\ Goto(r, "idle")
    /\ args' = [args EXCEPT ![r] = Unset]
    /\ simulation' = [simulation EXCEPT ![r] = Unset]
    /\ entry' = [entry EXCEPT ![r] = "none"]
    /\ emergency_data' = [emergency_data EXCEPT ![r] = Unset]
    /\ error' = [error EXCEPT ![r] = "none"]
    /\ result' = [result EXCEPT ![r] = Unset]
    /\ http' = [http EXCEPT ![r] = 0]
    /\ phase' = [phase EXCEPT ![r] = "NONE"]
    /\ UNCHANGED <<deployment, fitted_columns, system, shared, context, loop>>

-----------------------------------------------------------------------------
Step(r) ==
    \/ ApiRequest(r)
    \/ ValidateFields(r)
    \/ DirectCall(r)
    \/ ReceiveCall(r)
    \/ ExtractInformation(r)
    \/ CollectData(r)
    \/ CreateFeatures(r)
    \/ AddColumns(r)
    \/ PrepareFeatures(r)
    \/ RankHospitals(r)
    \/ GetRoutes(r)
    \/ PredictRoute(r)
    \/ SelectBestRoute(r)
    \/ GenerateRecommendation(r)
    \/ HandleException(r)
    \/ ApiRespond(r)
    \/ DirectReturn(r)
    \/ ReportRequest(r)

(* One request, served alone, with every answer of the environment *)
Next == Step(1)

Spec == Init /\ [][Next]_vars

(* The interpreter keeps executing the handler: a step that can be taken is
   taken *)
LiveSpec == Init /\ [][Next]_vars /\ WF_vars(Next)

(* preprocess_single_sample applied to a snapshot, with any of its sections
   absent *)
PartialSnapshots ==
    { [section \in present |-> CollectAllData(w, t, now)[section]] :
          present \in SUBSET {"weather", "traffic", "contextual", "incidents"},
          w \in WeatherCalls, t \in TrafficCalls, now \in Instants }

PreprocessInit ==
    /\ deployment = "sequential"
    /\ TrainedInit
    /\ response_history = <<>>
    /\ args = [r \in Workers |-> Unset]
    /\ simulation = [r \in Workers |-> Unset]
    /\ pc = [r \in Workers |-> IF r = 1 THEN "create_features" ELSE "idle"]
    /\ entry = [r \in Workers |-> "none"]
    /\ emergency_data = [r \in Workers |-> Unset]
    /\ \E data_dict \in PartialSnapshots :
           current_data = [r \in Workers |-> IF r = 1 THEN data_dict ELSE Unset]
    /\ df_columns = [r \in Workers |-> EmptyDict]
    /\ features = [r \in Workers |-> NoFeatures]
    /\ hospital_options = [r \in Workers |-> <<>>]
    /\ idx = [r \in Workers |-> 0]
    /\ route_options = [r \in Workers |-> <<>>]
    /\ route_predictions = [r \in Workers |-> <<>>]
    /\ optimized_responses = [r \in Workers |-> <<>>]
    /\ error = [r \in Workers |-> "none"]
    /\ result = [r \in Workers |-> Unset]
    /\ http = [r \in Workers |-> 0]
    /\ phase = [r \in Workers |-> "NONE"]

PreprocessNext == CreateFeatures(1) \/ AddColumns(1) \/ PrepareFeatures(1)

PreprocessSpec == PreprocessInit /\ [][PreprocessNext]_vars

(* Feature lists load_preprocessors may find saved: the one of the synthetic
   frame, and the one of a frame built by create_training_features from
   snapshots whose traffic list was empty *)
SavedSchemas ==
    { FEATURE_COLUMNS,
      SelectSeq(FEATURE_COLUMNS,
                LAMBDA col : col \notin {"distance_km", "duration_normal_min",
                                         "historical_traffic_ratio"}) }

(* _initialize_system, lines 35-39: models and preprocessor loaded from the
   saved files *)
LoadedInit ==
    /\ deployment = "loaded"
    /\ system = Started("loaded", "loaded")
    /\ \E schema \in SavedSchemas :
           fitted_columns = schema /\ feature_columns = schema
    /\ InitWorkers

(* Requests served one after the other *)
LoadedNext == Step(1) \/ Finish(1)

LoadedSpec == LoadedInit /\ [][LoadedNext]_vars

(* Flask's threaded server: the workers interleave and are reused *)
ThreadedNext == \E r \in Workers : Step(r) \/ Finish(r)

ThreadedSpec == ThreadedInit /\ [][ThreadedNext]_vars

(* collect_all_data and preprocess_single_sample of one call, at any hour of
   any day of the week *)
ContextualInit ==
    /\ deployment = "contextual"
    /\ TrainedInit
    /\ InitWorkers

ContextualNext ==
    \/ DirectCall(1)
    \/ ReceiveCall(1)
    \/ ExtractInformation(1)
    \/ CollectData(1)
    \/ PreprocessNext

ContextualSpec == ContextualInit /\ [][ContextualNext]_vars

-----------------------------------------------------------------------------
(* EmergencyResponseService._initialize_system (src/emergency_service.py) *)

workers == <<args, simulation, response_history, pc, request, context, loop, error, result,
             http, phase>>

(* A training that fits the models and leaves the preprocessor as it was *)
TrainedModelsOnly(sys) == [sys EXCEPT !.models = "trained", !.stage = "road_network"]

(* _train_initial_models, lines 55-71: prepare_features fits the preprocessor,
   train_models fits the models, both are saved *)
TrainedSystem(sys) ==
    [sys EXCEPT !.models = "trained", !.preprocessor = "trained", !.stage = "road_network"]

(* line 37: load_models returns, or raises because no artifact is there *)
LoadModels ==
    /\ system.stage = "load_models"
    /\ \/ /\ \E schema \in SavedSchemas : fitted_columns' = schema
          /\ system' = [system EXCEPT !.models = "loaded", !.stage = "load_preprocessors"]
       \/ /\ system' = [system EXCEPT !.failed_load = "models", !.stage = "train"]
          /\ UNCHANGED fitted_columns
    /\ UNCHANGED <<deployment, feature_columns, workers>>

(* line 38: load_preprocessors returns, or joblib.load raises *)
LoadPreprocessors ==
    /\ system.stage = "load_preprocessors"
    /\ \/ /\ \E schema \in SavedSchemas : feature_columns' = schema
          /\ system' = [system EXCEPT !.preprocessor = "loaded", !.stage = "road_network"]
       \/ /\ system' = [system EXCEPT !.failed_load = "preprocessor", !.stage = "train"]
          /\ UNCHANGED feature_columns
    /\ UNCHANGED <<deployment, fitted_columns, workers>>

(* lines 40-42: the bare except calls _train_initial_models; an exception of
   the training or of the saving leaves the constructor *)
TrainInitialModels ==
    /\ system.stage = "train"
    /\ \/ /\ system' = TrainedSystem(system)
          /\ fitted_columns' = TrainedSchema
          /\ feature_columns' = TrainedSchema
       \/ /\ system' = [system EXCEPT !.stage = "failed"]
          /\ \E columns \in {feature_columns, TrainedSchema} : feature_columns' = columns
          /\ UNCHANGED fitted_columns
    /\ UNCHANGED <<deployment, workers>>

(* lines 44-47 *)
InitializeRoadNetwork ==
    /\ system.stage = "road_network"
    /\ system' = [system EXCEPT !.road_network = TRUE, !.stage = "hospitals"]
    /\ UNCHANGED <<deployment, fitted_columns, feature_columns, workers>>

(* lines 49-53, 73-109 *)
LoadHospitalDatabase ==
    /\ system.stage = "hospitals"
    /\ system' = [system EXCEPT !.hospital_database = TRUE, !.stage = "ready"]
    /\ UNCHANGED <<deployment, fitted_columns, feature_columns, workers>>

InitializeSystem ==
    \/ LoadModels
    \/ LoadPreprocessors
    \/ TrainInitialModels
    \/ InitializeRoadNetwork
    \/ LoadHospitalDatabase

(* The process from the construction of the service on *)
StartupInit ==
    /\ deployment = "startup"
    /\ system = Constructed
    /\ fitted_columns = <<>>
    /\ feature_columns = <<>>
    /\ InitWorkers

StartupNext == InitializeSystem \/ Step(1) \/ Finish(1)

StartupSpec == StartupInit /\ [][StartupNext]_vars

(* Simulations and requests of one worker *)
SimulationInit == deployment = "simulation" /\ TrainedInit /\ InitWorkers

SimulationNext == Step(1) \/ Simulate(1) \/ Finish(1)

SimulationSpec == SimulationInit /\ [][SimulationNext]_vars

(* One request served with a predictor that is a function of its inputs *)
DeterministicInit == deployment = "deterministic" /\ TrainedInit /\ InitWorkers

DeterministicSpec == DeterministicInit /\ [][Next]_vars

(* Requests and reports of one worker, days apart *)
AnalyticsInit == deployment = "analytics" /\ TrainedInit /\ InitWorkers

AnalyticsSpec == AnalyticsInit /\ [][LoadedNext]_vars

-----------------------------------------------------------------------------
(* Properties *)

IsRecommendation(response) ==
    "recommended_hospital" \in DOMAIN response /\ "optimal_route" \in DOMAIN response

IsFallback(response) ==
    "status" \in DOMAIN response /\ response.status = "fallback"

Returned(r) == pc[r] = "returned"

(* C1, as claimed: handle_emergency_call never raises to its caller, for every
   emergency_data and every internal failure; it returns a full recommendation
   or a response whose status is 'fallback'. *)
C1_NeverRaises ==
    \A r \in Workers :
        Returned(r) => IsRecommendation(result[r]) \/ IsFallback(result[r])

(* C1, amended: a call whose emergency_data holds both 'latitude' and
   'longitude' returns a full recommendation or a response whose status is
   'fallback', whatever failed inside; a call whose emergency_data lacks one
   of them ends with the KeyError that _generate_fallback_response raises. *)
C1_ReturnsWhenCoordinatesPresent ==
    \A r \in Workers :
        Returned(r) =>
            IF "latitude" \in DOMAIN emergency_data[r] /\ "longitude" \in DOMAIN emergency_data[r]
            THEN /\ IsRecommendation(result[r]) \/ IsFallback(result[r])
                 /\ error[r] # "none" => IsFallback(result[r])
            ELSE Raised(result[r])

(* C1 witness: a prediction failed inside a call without a call_id and the
   call returned the fallback response. *)
C1_Witness ==
    \E r \in Workers :
        /\ Returned(r)
        /\ error[r] = "ModelNotTrainedError"
        /\ "call_id" \notin DOMAIN emergency_data[r]
        /\ IsFallback(result[r])

(* Total response time of the recommended hospital, from the response *)
RecommendedTotal(response) ==
    response.optimal_route.estimated_time + response.recommended_hospital.current_wait_time

(* C2: the recommended hospital minimizes best-route travel_time +
   current_wait_time over the evaluated hospitals (the winner and the
   alternatives of the response): none has a strictly smaller total. *)
C2_RecommendedMinimizesTotal ==
    \A r \in Workers :
        Returned(r) /\ IsRecommendation(result[r]) =>
            \A k \in DOMAIN result[r].alternative_options :
                RecommendedTotal(result[r]) <= result[r].alternative_options[k].total_time

(* Hospital evaluated last and the candidates generated for it: between
   SelectBestRoute and the next GetRoutes *)
JustSelected(r) == pc[r] \in {"routes", "final"} /\ optimized_responses[r] # <<>>

LastResponse(r) == optimized_responses[r][Len(optimized_responses[r])]

(* C3: for each evaluated hospital, best_route is one of the candidates
   generated for it and has the least predicted travel_time among them. *)
C3_BestRouteMinimizesTravelTime ==
    \A r \in Workers :
        JustSelected(r) =>
            /\ \E j \in DOMAIN route_predictions[r] :
                   LastResponse(r).best_route = route_predictions[r][j]
            /\ \A j \in DOMAIN route_predictions[r] :
                   LastResponse(r).best_route.prediction.travel_time
                       <= route_predictions[r][j].prediction.travel_time

(* C3 witness: the second of two candidates is the faster one and was chosen. *)
C3_Witness ==
    \E r \in Workers :
        /\ JustSelected(r)
        /\ Len(route_predictions[r]) = 2
        /\ route_predictions[r][2].prediction.travel_time
               < route_predictions[r][1].prediction.travel_time
        /\ LastResponse(r).best_route.route = 2

(* Exceptions raised while one hospital of the top-N is evaluated *)
EvaluationErrors == {"NoRouteFoundError", "ValueError", "ModelNotTrainedError", "FeatureSchemaError"}

(* C4: a failure while evaluating one of the top-N hospitals does not abort
   the request; the exception handler (and so the fallback) is reached only
   when every one of the top-N hospitals failed, that is with the last one
   failing and none evaluated successfully. *)
C4_FailureTriesNextHospital ==
    \A r \in Workers :
        pc[r] = "except" /\ error[r] \in EvaluationErrors =>
            /\ idx[r] = Len(TopN(hospital_options[r]))
            /\ optimized_responses[r] = <<>>

(* The registry hospital nearest to a point by straight-line distance (lowest
   index among equals) *)
NearestHospital(lat, lon) ==
    CHOOSE h \in HospitalIdx :
        \A g \in HospitalIdx :
            \/ StraightLineDistance(lat, lon, h) < StraightLineDistance(lat, lon, g)
            \/ StraightLineDistance(lat, lon, h) = StraightLineDistance(lat, lon, g) /\ h <= g

(* C5: every fallback response names the registry hospital nearest to the
   emergency location, with generic guidance and status 'fallback'. *)
C5_FallbackNamesNearestHospital ==
    \A r \in Workers :
        Returned(r) /\ IsFallback(result[r]) =>
            /\ "recommendation" \in DOMAIN result[r]
            /\ "recommended_hospital" \in DOMAIN result[r]
            /\ result[r].recommended_hospital.id =
                   Hospitals[NearestHospital(emergency_data[r].latitude,
                                             emergency_data[r].longitude)].id

(* Phase changes the request state machine of the design allows *)
ClaimedTransitions ==
    { <<"NONE", "RECEIVED">>, <<"RECEIVED", "CONTEXT_READY">>,
      <<"CONTEXT_READY", "HOSPITALS_RANKED">>, <<"HOSPITALS_RANKED", "ROUTES_GENERATED">>,
      <<"ROUTES_GENERATED", "PREDICTED">>, <<"PREDICTED", "RECOMMENDED">>,
      <<"FAILED", "FALLBACK">> }
    \cup { <<p, "FAILED">> : p \in {"RECEIVED", "CONTEXT_READY", "HOSPITALS_RANKED",
                                    "ROUTES_GENERATED", "PREDICTED"} }

TerminalPhases == {"RECOMMENDED", "FALLBACK"}

(* C6, as claimed: a request passes through RECEIVED, CONTEXT_READY,
   HOSPITALS_RANKED, ROUTES_GENERATED, PREDICTED, RECOMMENDED in that order
   only, or leaves a non-terminal phase for FAILED then FALLBACK; it ends in
   RECOMMENDED or FALLBACK and takes no step after it. *)
C6_PhaseOrder ==
    /\ [][\A r \in Workers :
              phase'[r] # phase[r] => <<phase[r], phase'[r]>> \in ClaimedTransitions]_vars
    /\ [](\A r \in Workers : Returned(r) => phase[r] \in TerminalPhases)
    /\ [][\A r \in Workers :
              phase[r] \in TerminalPhases => phase'[r] = phase[r] /\ result'[r] = result[r]]_vars

(* C6, amended: the phases are passed in the claimed order except that
   ROUTES_GENERATED and PREDICTED are passed once per evaluated hospital, so
   PREDICTED may be followed by ROUTES_GENERATED; a request ends in RECOMMENDED
   or FALLBACK, or, when its emergency_data lacks a coordinate, in FAILED with
   the KeyError of the fallback generator raised to the caller; nothing
   changes its phase or response after RECOMMENDED or FALLBACK. *)
C6_PhaseOrderPerHospital ==
    /\ [][\A r \in Workers :
              phase'[r] # phase[r] =>
                  <<phase[r], phase'[r]>> \in
                      ClaimedTransitions \cup {<<"PREDICTED", "ROUTES_GENERATED">>}]_vars
    /\ [](\A r \in Workers :
              Returned(r) =>
                  \/ phase[r] \in TerminalPhases /\ ~Raised(result[r])
                  \/ /\ phase[r] = "FAILED"
                     /\ Raised(result[r])
                     /\ ~("latitude" \in DOMAIN emergency_data[r]
                          /\ "longitude" \in DOMAIN emergency_data[r]))
    /\ [][\A r \in Workers :
              phase[r] \in TerminalPhases => phase'[r] = phase[r] /\ result'[r] = result[r]]_vars

(* C6 witness: routes generated for a second hospital after the first was
   predicted. *)
C6_Witness ==
    \E r \in Workers :
        /\ phase[r] = "ROUTES_GENERATED"
        /\ Len(optimized_responses[r]) = 1
        /\ idx[r] = 2

(* What preprocess_single_sample returns for a snapshot when the request runs
   alone against the trained schema *)
PreprocessAlone(data_dict) ==
    SelectAndScale(AddMissingColumns(CreateTrainingFeatures(data_dict), TrainedSchema))

(* C7: requests interleaved against the one shared service get the response
   they get alone: the dataframe and the feature vector of each request are
   those computed from its own snapshot and the trained schema, the predictor
   rejects a vector only if it would alone, and the response carries the
   request's own call_id and location. *)
C7_NoCrossRequestLeakage ==
    \A r \in Workers :
        /\ pc[r] = "prepare" =>
               df_columns[r] = AddMissingColumns(CreateTrainingFeatures(current_data[r]),
                                                 TrainedSchema)
        /\ pc[r] \in {"rank", "routes", "predict", "select", "final", "except"}
               /\ features[r] # NoFeatures =>
               features[r] = PreprocessAlone(current_data[r])
        /\ pc[r] = "except" /\ error[r] = "FeatureSchemaError" =>
               PreprocessAlone(current_data[r]).columns # TrainedSchema
        /\ Returned(r) /\ ~Raised(result[r]) =>
               /\ result[r].call_id = Get(emergency_data[r], "call_id", None)
               /\ result[r].emergency_location.latitude = emergency_data[r].latitude
               /\ result[r].emergency_location.longitude = emergency_data[r].longitude

(* C7 witness: one request has read the shared schema and not yet written it
   while another, with a different traffic answer, has written it. *)
C7_Witness ==
    \E r1 \in Workers, r2 \in Workers :
        /\ r1 # r2
        /\ pc[r1] = "prepare"
        /\ pc[r2] = "rank"
        /\ current_data[r1].traffic = <<>>
        /\ current_data[r2].traffic # <<>>

(* Valid input of the design: both coordinates, inside the city bounds, and a
   known condition code when one is given *)
InCityBounds(lat, lon) ==
    /\ CITY_BOUNDS.south <= lat /\ lat <= CITY_BOUNDS.north
    /\ CITY_BOUNDS.west <= lon /\ lon <= CITY_BOUNDS.east

ValidInput(data) ==
    /\ "latitude" \in DOMAIN data
    /\ "longitude" \in DOMAIN data
    /\ InCityBounds(data.latitude, data.longitude)
    /\ "condition" \in DOMAIN data => data.condition \in Conditions

(* C8: a request with a missing coordinate, coordinates outside the city
   bounds or an unknown condition code is rejected by POST /api/emergency
   before handle_emergency_call is entered, and is not logged. *)
C8_InvalidInputRejected ==
    /\ \A r \in Workers :
           entry[r] = "api" /\ phase[r] # "NONE" => ValidInput(emergency_data[r])
    /\ \A i \in DOMAIN response_history : ValidInput(response_history[i].emergency)

HospitalIndex(id) == CHOOSE h \in HospitalIdx : Hospitals[h].id = id

(* C9: when the predictor fails because no model has been fit, the call
   returns a non-fallback recommendation whose travel time is the base
   duration and whose confidence is 0. *)
C9_UntrainedModelUsesBaseDuration ==
    \A r \in Workers :
        Returned(r) /\ error[r] = "ModelNotTrainedError" =>
            /\ IsRecommendation(result[r])
            /\ result[r].optimal_route.confidence = 0
            /\ result[r].optimal_route.estimated_time =
                   CalculateTravelTime(emergency_data[r].latitude, emergency_data[r].longitude,
                                       HospitalIndex(result[r].recommended_hospital.id))

(* C10: when route generation raises or returns no candidate for one of the
   top-N hospitals, the request is not turned into a fallback: the call
   returns a recommendation. *)
C10_NoRouteHospitalStillEvaluated ==
    \A r \in Workers :
        Returned(r) /\ error[r] \in {"NoRouteFoundError", "ValueError"} =>
            IsRecommendation(result[r]) /\ ~IsFallback(result[r])

-----------------------------------------------------------------------------
(* Snapshots *)

Sections == {"weather", "traffic", "contextual", "incidents"}

(* Fields of the weather record that create_training_features (lines 24-31)
   and _generate_final_recommendation (lines 246, 249) read by subscript;
   temp_trend and rain_forecast_6h are read with .get and a default *)
WeatherFieldsRead ==
    {"temperature", "humidity", "pressure", "visibility", "wind_speed", "is_raining",
     "is_snowing", "rain_intensity", "weather_condition"}

(* C11: collect_all_data returns a snapshot with the sections weather,
   traffic, contextual and incidents for every combination of upstream
   outcomes; an error in the weather call gives the default weather record, an
   error or a non-OK status in the traffic call gives an empty traffic list;
   the weather record of every snapshot a request holds has every field that
   create_training_features and _generate_final_recommendation subscript. *)
C11_SnapshotAlwaysComplete ==
    /\ \A w \in WeatherCalls, t \in TrafficCalls, now \in Instants :
           LET snapshot == CollectAllData(w, t, now) IN
           /\ Sections \subseteq DOMAIN snapshot
           /\ w = "error" => snapshot.weather = DefaultWeather
           /\ t # "ok" => snapshot.traffic = <<>>
           /\ WeatherFieldsRead \subseteq DOMAIN snapshot.weather
    /\ \A r \in Workers :
           current_data[r] # Unset =>
               /\ Sections \subseteq DOMAIN current_data[r]
               /\ WeatherFieldsRead \subseteq DOMAIN current_data[r].weather
               /\ \E w \in WeatherCalls, t \in TrafficCalls, now \in Instants :
                      current_data[r] = CollectAllData(w, t, now)

(* C11 witness: both upstream calls failed and the request holds the default
   weather record and an empty traffic list. *)
C11_Witness ==
    \E r \in Workers :
        /\ pc[r] = "create_features"
        /\ current_data[r].weather = DefaultWeather
        /\ current_data[r].traffic = <<>>

(* C12: every external data-acquisition call is bounded, so every call of
   handle_emergency_call eventually returns (a recommendation or a fallback),
   also when an upstream service never answers. *)
C12_EveryCallReturns ==
    \A r \in Workers : (pc[r] = "call") ~> Returned(r)

(* The step in which handle_emergency_call returns a response *)
ReturnsResponse(r) ==
    pc[r] \in {"final", "except"} /\ pc'[r] = "returned" /\ ~Raised(result'[r])

(* Defaults were substituted for an upstream answer *)
DefaultsSubstituted(snapshot) ==
    snapshot.weather = DefaultWeather \/ snapshot.traffic = <<>>

(* A response a caller can tell from one computed from live data: it carries
   a reduced-confidence mark, or it is the fallback *)
MarkedReducedConfidence(response) ==
    \/ "reduced_confidence" \in DOMAIN response
    \/ "data_quality" \in DOMAIN response
    \/ IsFallback(response)

(* C13: whenever the default weather record or an empty traffic list was
   substituted for a failed upstream fetch, the response returned by
   handle_emergency_call is marked as reduced-confidence. *)
C13_DefaultsMarkedReducedConfidence ==
    [][\A r \in Workers :
           /\ ReturnsResponse(r)
           /\ current_data[r] # Unset
           /\ DefaultsSubstituted(current_data[r])
           => MarkedReducedConfidence(result'[r])]_vars

(* C14: every response returned by handle_emergency_call carries a status
   flag, 'optimized' when a hospital and a route were selected and 'fallback'
   otherwise. *)
C14_StatusFlagOnEveryResponse ==
    \A r \in Workers :
        Returned(r) /\ ~Raised(result[r]) =>
            /\ "status" \in DOMAIN result[r]
            /\ result[r].status = IF IsRecommendation(result[r]) THEN "optimized" ELSE "fallback"

(* Registry ids of the hospitals of a list of optimized responses *)
HospitalIds(responses) == {Hospitals[responses[k].hospital].id : k \in DOMAIN responses}

(* C15: a recommendation lists at most 2 alternatives; they are exactly the
   evaluated hospitals other than the winner, min(2, evaluated - 1) of them,
   never the recommended hospital, in ascending rank order. *)
C15_AlternativesAreTheOtherEvaluated ==
    [][\A r \in Workers :
           pc[r] = "final" /\ pc'[r] = "returned" /\ IsRecommendation(result'[r]) =>
               LET evaluated == optimized_responses[r]
                   alternatives == result'[r].alternative_options
               IN  /\ Len(alternatives) <= 2
                   /\ Len(alternatives) = Min2(2, Len(evaluated) - 1)
                   /\ \A k \in DOMAIN alternatives :
                          /\ alternatives[k].hospital_name # result'[r].recommended_hospital.id
                          /\ alternatives[k].hospital_name = Hospitals[evaluated[k + 1].hospital].id
                          /\ alternatives[k].rank = evaluated[k + 1].rank
                          /\ \A j \in 1..(k - 1) : alternatives[j].rank < alternatives[k].rank
                   /\ {alternatives[k].hospital_name : k \in DOMAIN alternatives}
                          = HospitalIds(evaluated) \ {result'[r].recommended_hospital.id}]_vars

(* C15 witness: a recommendation returned with two alternatives. *)
C15_Witness ==
    \E r \in Workers :
        /\ Returned(r)
        /\ IsRecommendation(result[r])
        /\ Len(result[r].alternative_options) = 2

(* C16: route generation and prediction run for at most 3 hospitals per
   request; the hospital being evaluated and those already evaluated are the
   first hospitals of the suitability ranking, in ranking order, and a loop
   that runs to its end has evaluated exactly the first min(3, number ranked)
   of them. *)
C16_OnlyTopThreeEvaluated ==
    \A r \in Workers :
        /\ Len(optimized_responses[r]) <= 3
        /\ pc[r] \in {"routes", "predict", "select"} =>
               /\ idx[r] \in 1..Min2(3, Len(hospital_options[r]))
               /\ Len(optimized_responses[r]) = idx[r] - 1
        /\ \A k \in DOMAIN optimized_responses[r] :
               /\ optimized_responses[r][k].hospital = hospital_options[r][k]
               /\ optimized_responses[r][k].rank = k
        /\ pc[r] = "final" =>
               Len(optimized_responses[r]) = Min2(3, Len(hospital_options[r]))

(* C16 witness: four hospitals were ranked and the loop ended after three. *)
C16_Witness ==
    \E r \in Workers :
        /\ pc[r] = "final"
        /\ Len(hospital_options[r]) = 4
        /\ Len(optimized_responses[r]) = 3

(* The evaluated hospitals with the least travel_time + current_wait_time *)
MinimalTotal(evaluated) ==
    {k \in DOMAIN evaluated :
        \A j \in DOMAIN evaluated :
            evaluated[k].best_route.total_response_time
                <= evaluated[j].best_route.total_response_time}

(* k is preferred to j among equals: higher confidence, then lower hospital id
   (the registry lists the hospitals by ascending id) *)
PreferredInTie(evaluated, k, j) ==
    \/ evaluated[k].best_route.prediction.confidence
           > evaluated[j].best_route.prediction.confidence
    \/ /\ evaluated[k].best_route.prediction.confidence
              = evaluated[j].best_route.prediction.confidence
       /\ evaluated[k].hospital <= evaluated[j].hospital

(* C17: when two or more evaluated hospitals share the minimal travel_time +
   current_wait_time, the recommended one is the one with the higher
   prediction confidence and, among equal confidences, the lower hospital id.
   Stated for the requests whose recommended hospital is one of those with
   the minimal total. *)
C17_TieBrokenByConfidenceThenId ==
    [][\A r \in Workers :
           pc[r] = "final" /\ pc'[r] = "returned" /\ IsRecommendation(result'[r]) =>
               LET evaluated == optimized_responses[r]
                   tied == MinimalTotal(evaluated)
                   recommended == HospitalIndex(result'[r].recommended_hospital.id)
               IN  /\ Cardinality(tied) >= 2
                   /\ \E k \in tied : evaluated[k].hospital = recommended
                   => \E k \in tied :
                          /\ evaluated[k].hospital = recommended
                          /\ \A j \in tied : PreferredInTie(evaluated, k, j)]_vars

(* C18: handle_emergency_call is a function of emergency_data and the
   snapshots alone: with the same emergency_data, context snapshot, ranking,
   routes and predictions, the response is the same at whatever wall-clock
   instant it is built. *)
C18_ResponseIndependentOfWallClock ==
    [][\A r \in Workers :
           /\ pc[r] = "final" /\ pc'[r] = "returned" /\ IsRecommendation(result'[r]) =>
                  \A now \in Instants :
                      result'[r] = GenerateFinalRecommendation(optimized_responses[r],
                                                               emergency_data[r],
                                                               current_data[r], now)
           /\ pc[r] = "except" /\ pc'[r] = "returned" /\ IsFallback(result'[r]) =>
                  \A now \in Instants :
                      result'[r] = GenerateFallbackResponse(emergency_data[r], now)]_vars

(* C19: for every snapshot, also one with an empty traffic list or with a
   section absent, preprocess_single_sample returns a vector with a value for
   every column of the trained schema, in the order of the schema; a column
   the snapshot gave no value for was set to 0 (and, when it is one of the
   numerical columns, passed through the scaler like every other value). *)
C19_FeatureVectorComplete ==
    \A r \in Workers :
        features[r] # NoFeatures /\ current_data[r] # Unset =>
            LET X == features[r]
                given == DOMAIN CreateTrainingFeatures(current_data[r])
            IN  /\ Range(fitted_columns) \subseteq DOMAIN X.row
                /\ X.columns = fitted_columns
                /\ \A col \in Range(fitted_columns) \ given :
                       X.row[col] = IF col \in NumericalFeatures
                                    THEN ScalerTransform(col, 0) ELSE 0

(* C19 witness: a snapshot without the weather section and with an empty
   traffic list was preprocessed. *)
C19_Witness ==
    \E r \in Workers :
        /\ pc[r] = "rank"
        /\ "weather" \notin DOMAIN current_data[r]
        /\ "traffic" \in DOMAIN current_data[r]
        /\ current_data[r].traffic = <<>>
        /\ features[r].row["humidity"] = ScalerTransform("humidity", 0)
        /\ features[r].row["historical_traffic_ratio"] = 0

(* C20: handling a request only reads the shared service state: no step of a
   request changes the preprocessor's feature_columns or the schema the model
   set was fitted on, whatever the trained schema is. *)
C20_RequestsOnlyReadSharedState ==
    [][feature_columns' = feature_columns /\ fitted_columns' = fitted_columns]_vars


-----------------------------------------------------------------------------
(* The analytics log and the endpoints around it *)

LogGrewBy(r) ==
    /\ Len(response_history') = Len(response_history) + 1
    /\ SubSeq(response_history', 1, Len(response_history)) = response_history
    /\ response_history'[Len(response_history')].emergency = emergency_data[r]
    /\ response_history'[Len(response_history')].response = result[r]

(* C21: the analytics log is append-only: a step either leaves
   response_history as it is (the report included) or adds exactly one entry
   at its end, keeping every earlier entry in place, and the entry added is
   that of a request whose handle_emergency_call has already returned *)
C21_LogIsAppendOnly ==
    [][ \/ response_history' = response_history
        \/ \E r \in Workers :
              /\ pc[r] = "returned"
              /\ entry[r] = "api"
              /\ ~Raised(result[r])
              /\ LogGrewBy(r) ]_vars

C21_Witness ==
    /\ Len(response_history) = 2
    /\ \E r \in Workers :
          /\ pc[r] = "done"
          /\ entry[r] = "report"
          /\ http[r] = 200
          /\ "total_emergencies" \in DOMAIN result[r]
          /\ result[r].total_emergencies = 2

(* C28: POST /api/emergency ends with one of three answers: 400 exactly when
   the body is a mapping without latitude or longitude, and then
   handle_emergency_call was not entered; 200 exactly when
   handle_emergency_call returned (recommendation or fallback), and then
   exactly one entry holding that response was appended to the log; 500 when
   an exception was raised; a 400 or 500 answer leaves the log as it was *)
C28_ThreeOutcomes ==
    [][ \A r \in Workers :
          entry[r] = "api" /\ pc[r] # "done" /\ pc'[r] = "done" =>
             /\ http'[r] \in {200, 400, 500}
             /\ http'[r] = 400 <=> /\ IsMapping(emergency_data[r])
                                   /\ ~HasCoordinates(emergency_data[r])
             /\ http'[r] = 400 => phase[r] = "NONE" /\ result[r] = Unset
             /\ http'[r] = 200 <=> pc[r] = "returned" /\ ~Raised(result[r])
             /\ http'[r] = 200 => LogGrewBy(r)
             /\ http'[r] = 500 => ~IsMapping(emergency_data[r]) \/ Raised(result[r])
             /\ http'[r] # 200 => response_history' = response_history ]_vars

C28_Witness ==
    \E r \in Workers :
        /\ pc[r] = "done"
        /\ entry[r] = "api"
        /\ http[r] = 200
        /\ IsFallback(result[r])
        /\ Len(response_history) = 1
        /\ response_history[1].response = result[r]

RECURSIVE SumOfCounts(_)
SumOfCounts(breakdown) ==
    IF DOMAIN breakdown = {} THEN 0
    ELSE LET k == CHOOSE x \in DOMAIN breakdown : TRUE
         IN  breakdown[k] + SumOfCounts([x \in DOMAIN breakdown \ {k} |-> breakdown[x]])

EntriesInsidePeriod(r) ==
    SelectSeq(response_history, LAMBDA e : e.timestamp > args[r].now - args[r].days)

(* C29: the report counts every entry inside the period: with at least one
   such entry generate_performance_report returns a report whose
   total_emergencies is their number and whose condition and priority counts
   each sum to it; with none it returns the 'No data available' message *)
C29_ReportCountsEveryEntry ==
    \A r \in Workers :
        pc[r] = "done" /\ entry[r] = "report" =>
            IF EntriesInsidePeriod(r) = <<>>
            THEN result[r] = [message |-> "No data available for the specified time period"]
            ELSE /\ "total_emergencies" \in DOMAIN result[r]
                 /\ result[r].total_emergencies = Len(EntriesInsidePeriod(r))
                 /\ SumOfCounts(result[r].condition_breakdown) = result[r].total_emergencies
                 /\ SumOfCounts(result[r].priority_breakdown) = result[r].total_emergencies


-----------------------------------------------------------------------------
(* The fallback path and the choice of the recommended hospital *)

(* C23: a call in which the ranking held no hospital (IndexError at
   optimized_responses[0]) or in which no route candidate could be evaluated
   for a hospital (ValueError at min of an empty list) returns the response
   whose status is 'fallback'; it does not raise *)
C23_NothingEvaluatedGivesFallback ==
    \A r \in Workers :
        Returned(r) /\ error[r] \in {"IndexError", "ValueError"} =>
            ~Raised(result[r]) /\ IsFallback(result[r])

C23_Witness ==
    \E r \in Workers :
        /\ Returned(r)
        /\ error[r] = "IndexError"
        /\ phase[r] = "FALLBACK"
        /\ IsFallback(result[r])

(* C24: the hospital recommended by a successful call is the first hospital
   of the suitability ranking, whatever the predicted times and wait times of
   the other evaluated hospitals *)
C24_RankOneIsRecommended ==
    [][ \A r \in Workers :
          pc[r] = "final" /\ pc'[r] = "returned" /\ IsRecommendation(result'[r]) =>
             /\ result'[r].recommended_hospital.id = Hospitals[hospital_options[r][1]].id
             /\ result'[r].optimal_route.estimated_time
                   = optimized_responses[r][1].best_route.prediction.travel_time ]_vars

(* C24 witness: a recommendation was returned although an alternative has a
   strictly smaller total response time *)
C24_Witness ==
    \E r \in Workers :
        /\ Returned(r)
        /\ IsRecommendation(result[r])
        /\ \E k \in DOMAIN result[r].alternative_options :
               result[r].alternative_options[k].total_time < RecommendedTotal(result[r])

FallbackInputs(data) ==
    [k \in DOMAIN data \cap {"call_id", "latitude", "longitude"} |-> data[k]]

(* C26: a call whose emergency_data holds both 'latitude' and 'longitude'
   returns and does not raise, whichever step failed; its fallback response is
   the one built from call_id, latitude and longitude alone, so that no other
   key of emergency_data is read on the fallback path *)
C26_FallbackReadsOnlyThreeKeys ==
    \A r \in Workers :
        Returned(r) /\ HasCoordinates(emergency_data[r]) =>
            /\ ~Raised(result[r])
            /\ IsFallback(result[r]) =>
                  result[r] = GenerateFallbackResponse(FallbackInputs(emergency_data[r]),
                                                       result[r].timestamp)

C26_Witness ==
    \E r \in Workers :
        /\ Returned(r)
        /\ error[r] = "RankingError"
        /\ "condition" \in DOMAIN emergency_data[r]
        /\ "call_id" \in DOMAIN emergency_data[r]
        /\ IsFallback(result[r])


(* C25: with a deterministic predictor every route candidate of a hospital
   gets the same prediction (its inputs do not depend on the route), hence the
   same travel_time and total_response_time, and best_route is the first
   candidate get_multiple_route_options returned *)
C25_CandidatesOfAHospitalAreEqual ==
    \A r \in Workers :
        JustSelected(r) =>
            /\ \A j, k \in DOMAIN route_predictions[r] :
                   /\ route_predictions[r][j].prediction = route_predictions[r][k].prediction
                   /\ route_predictions[r][j].total_response_time
                         = route_predictions[r][k].total_response_time
            /\ LastResponse(r).best_route.route = route_options[r][1]

C25_Witness ==
    \E r \in Workers :
        /\ JustSelected(r)
        /\ Len(optimized_responses[r]) = 2
        /\ Len(route_predictions[r]) = 2
        /\ LastResponse(r).best_route.route = route_options[r][1]
        /\ optimized_responses[r][1].best_route.prediction
              # optimized_responses[r][2].best_route.prediction


-----------------------------------------------------------------------------
(* Serving and training *)

ServedFlags(r) == current_data[r].contextual

(* C27: at every hour 0..23 of every weekday 0..6 the flags in the snapshot of
   get_contextual_data equal the flags of a training row for the same hour and
   day with is_holiday = 0 (is_weekend, is_rush_hour, is_night,
   is_school_time); in the snapshot and in the training rows (holiday or not)
   is_rush_hour and is_night are never both 1 and is_school_time = 1 implies
   is_weekend = 0 *)
C27_ServingFlagsEqualTrainingFlags ==
    \A r \in Workers :
        current_data[r] # Unset /\ "contextual" \in DOMAIN current_data[r] =>
            LET flags == {"is_weekend", "is_rush_hour", "is_night", "is_holiday", "is_school_time"}
                served == ServedFlags(r)
                trained == SyntheticContextualFlags(served.hour, served.day_of_week, 0)
            IN  /\ \A f \in flags : served[f] = trained[f]
                /\ \A f \in flags \ {"is_holiday"} : df_columns[r] # EmptyDict => df_columns[r][f] = trained[f]
                /\ ~(served.is_rush_hour = 1 /\ served.is_night = 1)
                /\ served.is_school_time = 1 => served.is_weekend = 0
                /\ \A is_holiday \in {0, 1} :
                       LET row == SyntheticContextualFlags(served.hour, served.day_of_week, is_holiday)
                       IN  /\ ~(row.is_rush_hour = 1 /\ row.is_night = 1)
                           /\ row.is_school_time = 1 => row.is_weekend = 0

(* C27 witness: Friday, 17 h: school time and rush hour at once *)
C27_Witness ==
    \E r \in Workers :
        /\ pc[r] = "rank"
        /\ current_data[r] # Unset
        /\ ServedFlags(r).hour = 17
        /\ ServedFlags(r).day_of_week = 4
        /\ ServedFlags(r).is_school_time = 1
        /\ ServedFlags(r).is_rush_hour = 1


-----------------------------------------------------------------------------
(* Startup *)

Available(part) == part \in {"loaded", "trained"}

TrainingDone == system.stage \in {"road_network", "hospitals", "ready"}

(* C22: when load_models or load_preprocessors failed, training was triggered
   and, once it is done, models and preprocessor are both the trained ones;
   models and preprocessor are available when the road network is
   initialized, the road network is initialized when the hospital database is
   loaded, and all three are there when a request is being handled *)
C22_StartupOrder ==
    /\ system.failed_load # "none" => system.stage \in {"train", "failed"} \/ TrainingDone
    /\ system.failed_load # "none" /\ TrainingDone =>
          /\ system.models = "trained" /\ system.preprocessor = "trained"
          /\ fitted_columns = TrainedSchema /\ feature_columns = TrainedSchema
    /\ system.stage = "road_network" \/ system.road_network =>
          Available(system.models) /\ Available(system.preprocessor)
    /\ system.stage = "hospitals" \/ system.hospital_database => system.road_network
    /\ (\E r \in Workers : pc[r] # "idle") =>
          /\ Available(system.models) /\ Available(system.preprocessor)
          /\ system.road_network
          /\ system.hospital_database

(* C22 witness: the models were loaded, the preprocessor was not, training
   replaced both, and a request has been answered *)
C22_Witness ==
    /\ system.failed_load = "preprocessor"
    /\ system.models = "trained"
    /\ system.preprocessor = "trained"
    /\ \E r \in Workers : pc[r] = "done" /\ entry[r] = "api" /\ http[r] = 200


-----------------------------------------------------------------------------
(* Simulation *)

SimulationEnded(r) == pc[r] = "done" /\ entry[r] = "simulate"

(* C30: for every num_emergencies >= 0 the simulation ends with a summary:
   its results list has num_emergencies entries, entry i holding generated
   emergency i and the response made for it, the call_ids are pairwise
   distinct, and success_rate is the number of responses with optimal_route
   over num_emergencies, between 0 and 1 *)
C30_SimulationSummaryForEveryCount ==
    \A r \in Workers :
        SimulationEnded(r) =>
            /\ ~Raised(result[r])
            /\ Len(result[r].results) = args[r].num_emergencies
            /\ \A i \in DOMAIN result[r].results :
                   /\ result[r].results[i].emergency = simulation[r].emergencies[i]
                   /\ result[r].results[i].response.call_id
                         = simulation[r].emergencies[i].call_id
            /\ \A i, j \in DOMAIN result[r].results :
                   i # j => result[r].results[i].emergency.call_id
                               # result[r].results[j].emergency.call_id
            /\ result[r].success_rate.denominator = args[r].num_emergencies
            /\ result[r].success_rate.numerator
                  = Cardinality({i \in DOMAIN result[r].results :
                                    IsRecommendation(result[r].results[i].response)})
            /\ 0 <= result[r].success_rate.numerator
            /\ result[r].success_rate.numerator <= result[r].success_rate.denominator

====
